---- MODULE Spec2Model ----
(***************************************************************************)
(* Model of the HTTP output client of beats-output-http (src/client.go).   *)
(*                                                                         *)
(* A Client embeds a Connection (URL, credentials, http client, connected  *)
(* flag, encoder).  The dispatch layer drives a client through Connect,    *)
(* Close, Clone, PublishEvent and PublishEvents.  The endpoint, the        *)
(* network and the encoder's verdict on an event are the environment: one  *)
(* value of Envs is drawn for every PublishEvent that runs.                *)
(*                                                                         *)
(* PublishEvents is followed statement by statement: its entry (counter,   *)
(* empty batch, not connected) is one step, every iteration of its loop    *)
(* (one PublishEvent call, and the code after the loop when it was the     *)
(* last) is one step.  While a PublishEvents call is in its loop no other  *)
(* operation runs: a client is driven by one caller at a time.             *)
(***************************************************************************)
EXTENDS Integers, Sequences, FiniteSets, TLC

\* ------------------------------------------------------------------ bounds
\* longest batch handed to PublishEvents
MaxBatch == 2
\* PublishEvents calls followed before the model stops issuing new ones
MaxCalls == 2

\* ------------------------------------------------------------- environment
\* the first client (built by NewClient) and the one Clone may build from it
ClientIds == {1, 2}

\* events the caller publishes
Events == {"e1", "e2"}

\* compression levels NewClient is given (0 = plain JSON, else gzip level)
CompressionLevels == {0, 9}

\* HTTP status codes of a completed round trip (class boundaries included)
Statuses == {200, 299, 300, 404, 429, 499, 500, 503}

\* batches: every sequence of events of length 0..MaxBatch
Batches == UNION {[1..n -> Events] : n \in 0..MaxBatch}

\* What the environment does to one PublishEvent:
\*   marshalErr  encoder.Marshal returns an error
\*   doErr       http.Do returns an error (dial, TLS, timeout, reset)
\*   status      resp.StatusCode of a completed round trip
\*   readErr     ioutil.ReadAll of the response body returns an error
Envs ==
    {[marshalErr |-> TRUE, doErr |-> FALSE, status |-> 200, readErr |-> FALSE],
     [marshalErr |-> FALSE, doErr |-> TRUE, status |-> 200, readErr |-> FALSE]}
    \cup {[marshalErr |-> FALSE, doErr |-> FALSE, status |-> s, readErr |-> FALSE] :
             s \in Statuses}
    \cup {[marshalErr |-> FALSE, doErr |-> FALSE, status |-> s, readErr |-> TRUE] :
             s \in {t \in Statuses : t < 300}}

\* ------------------------------------------------------------------ errors
Err(kind, status) == [kind |-> kind, status |-> status]
NilErr == Err("nil", 0)
ErrNotConnected == Err("not connected", 0)
ErrJSONEncodeFailed == Err("json encode failed", 0)
\* the error http.Do returned
TransportErr == Err("transport", 0)
\* the error http.NewRequest returned
NewRequestErr == Err("new request", 0)
\* the error ioutil.ReadAll returned
ReadErr == Err("read body", 0)
\* fmt.Errorf("%v", resp.Status)
StatusErr(status) == Err("http status", status)

\* a []outputs.Data value: nil, or a slice with its items
NilSlice == [isNil |-> TRUE, items |-> <<>>]
Slice(items) == [isNil |-> FALSE, items |-> items]

\* ------------------------------------------------------------------- state
VARIABLES
    clients,                 \* ClientIds -> the Client struct (or absent)
    publishEventsCallCount,  \* expvar libbeatHttpPublishEventsCallCount
    ackedEvents,             \* expvar libbeatHttpPublishedAndAckedEvents
    eventsNotAcked,          \* expvar libbeatHttpPublishedButNotAckedEvents
    call,                    \* the PublishEvents call in progress or just returned
    sentLog,                 \* batch indexes given to http.Do in that call
    last                     \* what the last step did and returned

vars == <<clients, publishEventsCallCount, ackedEvents, eventsNotAcked,
          call, sentLog, last>>

\* ------------------------------------------------------------ construction
\* NewClient, lines 72-81: the encoder variant chosen by the compression level
NewEncoder(compression) ==
    IF compression = 0 THEN [variant |-> "json", level |-> 0]
    ELSE [variant |-> "gzip", level |-> compression]

\* the settings NewClient is given besides params and compression: hostURL,
\* proxyURL, tls, username, password, timeout
Endpoint(hostURL, proxyURL, tls, username, password, timeout) ==
    [hostURL |-> hostURL, proxyURL |-> proxyURL, tls |-> tls,
     username |-> username, password |-> password, timeout |-> timeout]

\* the settings of the first client, and those of a client not built yet
ConfiguredEndpoint ==
    Endpoint("http://host/path", "http://proxy", "tlsConfig", "user", "secret",
             "90s")
NoEndpoint == Endpoint("", "", "", "", "", "")

\* NewClient: the struct literal of lines 83-101; compressionLevel is not set
\* by it and keeps Go's zero value, connected is false.  urlOK tells whether
\* http.NewRequest accepts the URL built from hostURL.
NewClient(endpoint, urlOK, hasParams, compression) ==
    [exists |-> TRUE,
     endpoint |-> endpoint,
     urlOK |-> urlOK,
     params |-> hasParams,
     compressionLevel |-> 0,
     encoder |-> NewEncoder(compression),
     connected |-> FALSE]

\* a client id no client has been built for yet
NoClient ==
    [exists |-> FALSE,
     endpoint |-> NoEndpoint,
     urlOK |-> FALSE,
     params |-> FALSE,
     compressionLevel |-> 0,
     encoder |-> NewEncoder(0),
     connected |-> FALSE]

\* Clone handing the original's params on to the new client
CloneOfKeepsParams(client) ==
    NewClient(client.endpoint, client.urlOK, client.params,
              client.compressionLevel)

\* Client.Clone: NewClient with the original's URL, proxy, TLS config,
\* credentials and timeout, nil params and the original's compressionLevel
\* field
CloneOf(client) ==
    NewClient(client.endpoint, client.urlOK, FALSE, client.compressionLevel)

\* Connection.Connect, Connection.Close and Connection.IsConnected
ConnConnect(conn) == [conn EXCEPT !.connected = TRUE]

\* Close flipping the flag instead of clearing it
ConnCloseToggle(conn) == [conn EXCEPT !.connected = ~conn.connected]

ConnClose(conn) == [conn EXCEPT !.connected = FALSE]

IsConnected(conn) == conn.connected

\* ----------------------------------------------------------- request path
\* execHTTPRequest taking every status from 200 on for a failure
execHTTPRequestFrom200(conn, env) ==
    IF env.doErr
    THEN [connected |-> FALSE, status |-> 0, hasBody |-> FALSE,
          err |-> TransportErr, marshalled |-> FALSE, attempted |-> TRUE,
          responded |-> FALSE]
    ELSE IF env.status >= 200
    THEN [connected |-> FALSE, status |-> env.status, hasBody |-> FALSE,
          err |-> StatusErr(env.status), marshalled |-> FALSE,
          attempted |-> TRUE, responded |-> TRUE]
    ELSE IF env.readErr
    THEN [connected |-> FALSE, status |-> env.status, hasBody |-> FALSE,
          err |-> ReadErr, marshalled |-> FALSE, attempted |-> TRUE,
          responded |-> TRUE]
    ELSE [connected |-> conn.connected, status |-> env.status,
          hasBody |-> TRUE, err |-> NilErr, marshalled |-> FALSE,
          attempted |-> TRUE, responded |-> TRUE]

\* execHTTPRequest with "status > 300" for "status >= 300"
execHTTPRequestAbove300(conn, env) ==
    IF env.doErr
    THEN [connected |-> FALSE, status |-> 0, hasBody |-> FALSE,
          err |-> TransportErr, marshalled |-> FALSE, attempted |-> TRUE,
          responded |-> FALSE]
    ELSE IF env.status > 300
    THEN [connected |-> FALSE, status |-> env.status, hasBody |-> FALSE,
          err |-> StatusErr(env.status), marshalled |-> FALSE,
          attempted |-> TRUE, responded |-> TRUE]
    ELSE IF env.readErr
    THEN [connected |-> FALSE, status |-> env.status, hasBody |-> FALSE,
          err |-> ReadErr, marshalled |-> FALSE, attempted |-> TRUE,
          responded |-> TRUE]
    ELSE [connected |-> conn.connected, status |-> env.status,
          hasBody |-> TRUE, err |-> NilErr, marshalled |-> FALSE,
          attempted |-> TRUE, responded |-> TRUE]

\* Connection.execHTTPRequest: the round trip and its classification
execHTTPRequest(conn, env) ==
    IF env.doErr
    THEN [connected |-> FALSE, status |-> 0, hasBody |-> FALSE,
          err |-> TransportErr, marshalled |-> FALSE, attempted |-> TRUE,
          responded |-> FALSE]
    ELSE IF env.status >= 300
    THEN [connected |-> FALSE, status |-> env.status, hasBody |-> FALSE,
          err |-> StatusErr(env.status), marshalled |-> FALSE,
          attempted |-> TRUE, responded |-> TRUE]
    ELSE IF env.readErr
    THEN [connected |-> FALSE, status |-> env.status, hasBody |-> FALSE,
          err |-> ReadErr, marshalled |-> FALSE, attempted |-> TRUE,
          responded |-> TRUE]
    ELSE [connected |-> conn.connected, status |-> env.status,
          hasBody |-> TRUE, err |-> NilErr, marshalled |-> FALSE,
          attempted |-> TRUE, responded |-> TRUE]

\* Connection.execRequest: http.NewRequest fails on a URL it cannot parse
execRequest(conn, env) ==
    IF ~conn.urlOK
    THEN [connected |-> conn.connected, status |-> 0, hasBody |-> FALSE,
          err |-> NewRequestErr, marshalled |-> FALSE, attempted |-> FALSE,
          responded |-> FALSE]
    ELSE execHTTPRequest(conn, env)

\* request going on to send after the encoder refused the body
requestIgnoreMarshal(conn, env) ==
    [execRequest(conn, env) EXCEPT !.marshalled = TRUE]

\* Connection.request with a non-nil body (PublishEvent always passes one)
request(conn, env) ==
    IF env.marshalErr
    THEN [connected |-> conn.connected, status |-> 0, hasBody |-> FALSE,
          err |-> ErrJSONEncodeFailed, marshalled |-> TRUE,
          attempted |-> FALSE, responded |-> FALSE]
    ELSE [execRequest(conn, env) EXCEPT !.marshalled = TRUE]

\* the switch with "status > 500" for "status >= 500"
ClassifyAbove500(status, err) ==
    IF status = 0 THEN NilErr
    ELSE IF status > 500 \/ status = 429 THEN err
    ELSE IF status >= 300 /\ status < 500 THEN NilErr
    ELSE NilErr

\* the switch retrying from 400 on instead of from 500 on
ClassifyFrom400(status, err) ==
    IF status = 0 THEN NilErr
    ELSE IF status >= 400 \/ status = 429 THEN err
    ELSE IF status >= 300 /\ status < 500 THEN NilErr
    ELSE NilErr

\* the switch of PublishEvent, lines 198-208
Classify(status, err) ==
    IF status = 0 THEN NilErr
    ELSE IF status >= 500 \/ status = 429 THEN err
    ELSE IF status >= 300 /\ status < 500 THEN NilErr
    ELSE NilErr

\* PublishEvent without its connected check
PublishEventUnchecked(conn, env) ==
    LET r == request(conn, env)
    IN  IF r.err # NilErr /\ r.err = ErrJSONEncodeFailed
        THEN [r EXCEPT !.err = NilErr] @@ [reqErr |-> r.err]
        ELSE [r EXCEPT !.err = Classify(r.status, r.err)] @@ [reqErr |-> r.err]

\* PublishEvent reconnecting by itself when it finds the client disconnected
PublishEventReconnects(conn, env) ==
    PublishEventUnchecked([conn EXCEPT !.connected = TRUE], env)

\* Client.PublishEvent: the returned error (err) with what the call did;
\* reqErr is the error client.request returned to it
PublishEvent(conn, env) ==
    IF ~conn.connected
    THEN [connected |-> conn.connected, status |-> 0, hasBody |-> FALSE,
          err |-> ErrNotConnected, marshalled |-> FALSE, attempted |-> FALSE,
          responded |-> FALSE, reqErr |-> NilErr]
    ELSE LET r == request(conn, env)
         IN  IF r.err # NilErr /\ r.err = ErrJSONEncodeFailed
             THEN [r EXCEPT !.err = NilErr] @@ [reqErr |-> r.err]
             ELSE [r EXCEPT !.err = Classify(r.status, r.err)]
                      @@ [reqErr |-> r.err]

\* the entry checks returning nil for the batch it refuses
PublishEventsEntryNilUnsent(conn, data) ==
    IF Len(data) = 0
    THEN [returned |-> TRUE, unsent |-> NilSlice, err |-> NilErr]
    ELSE IF ~conn.connected
    THEN [returned |-> TRUE, unsent |-> NilSlice, err |-> ErrNotConnected]
    ELSE [returned |-> FALSE, unsent |-> NilSlice, err |-> NilErr]

\* the entry checks in the other order: connected first, then the empty batch
PublishEventsEntryConnFirst(conn, data) ==
    IF ~conn.connected
    THEN [returned |-> TRUE, unsent |-> Slice(data), err |-> ErrNotConnected]
    ELSE IF Len(data) = 0
    THEN [returned |-> TRUE, unsent |-> NilSlice, err |-> NilErr]
    ELSE [returned |-> FALSE, unsent |-> NilSlice, err |-> NilErr]

\* Client.PublishEvents, lines 148-154: what the call returns before its loop
\* (returned = FALSE: it enters the loop)
PublishEventsEntry(conn, data) ==
    IF Len(data) = 0
    THEN [returned |-> TRUE, unsent |-> NilSlice, err |-> NilErr]
    ELSE IF ~conn.connected
    THEN [returned |-> TRUE, unsent |-> Slice(data), err |-> ErrNotConnected]
    ELSE [returned |-> FALSE, unsent |-> NilSlice, err |-> NilErr]

\* the loop going on to the next event after a send error
LoopExitNever(sendErr) == FALSE

\* Client.PublishEvents, lines 163-165: the loop bails out on a send error
LoopExit(sendErr) == sendErr # NilErr

\* the two counters' increments taken for each other
AfterLoopSwapped(data, failedEvents, sendErr) ==
    [acked |-> Len(failedEvents),
     notAcked |-> Len(data) - Len(failedEvents),
     unsent |-> IF Len(failedEvents) > 0 THEN Slice(failedEvents) ELSE NilSlice,
     err |-> IF Len(failedEvents) > 0 THEN sendErr ELSE NilErr]

\* the code after the loop handing the batch back although nothing failed
AfterLoopReturnsBatch(data, failedEvents, sendErr) ==
    [acked |-> Len(data) - Len(failedEvents),
     notAcked |-> Len(failedEvents),
     unsent |-> Slice(data),
     err |-> IF Len(failedEvents) > 0 THEN sendErr ELSE NilErr]

\* Client.PublishEvents, lines 172-178: the counters' increments and the
\* values returned once the loop has run through
AfterLoop(data, failedEvents, sendErr) ==
    [acked |-> Len(data) - Len(failedEvents),
     notAcked |-> Len(failedEvents),
     unsent |-> IF Len(failedEvents) > 0 THEN Slice(failedEvents) ELSE NilSlice,
     err |-> IF Len(failedEvents) > 0 THEN sendErr ELSE NilErr]

\* a second http.Do for the same event
LogRequestTwice(log, i, r) ==
    IF r.attempted THEN Append(Append(log, i), i) ELSE log

\* Connection.execHTTPRequest, line 251: http.Do is called once for the event
\* at batch position i when the call got that far
LogRequest(log, i, r) ==
    IF r.attempted THEN Append(log, i) ELSE log

\* ------------------------------------------------------------ step records
\* the PublishEvent call a step ran: the client's flag before it, what the
\* environment did, and the call's result
PERecord(pre, env, r) ==
    [ran |-> TRUE, pre |-> pre,
     transportFailed |-> r.attempted /\ ~r.responded,
     readFailed |-> r.responded /\ r.status < 300 /\ env.readErr,
     encodeFailed |-> r.marshalled /\ env.marshalErr,
     marshalled |-> r.marshalled, attempted |-> r.attempted,
     responded |-> r.responded, status |-> r.status, err |-> r.err,
     reqErr |-> r.reqErr, hasBody |-> r.hasBody]

NoPE ==
    [ran |-> FALSE, pre |-> FALSE, transportFailed |-> FALSE,
     readFailed |-> FALSE, encodeFailed |-> FALSE, marshalled |-> FALSE,
     attempted |-> FALSE, responded |-> FALSE, status |-> 0, err |-> NilErr,
     reqErr |-> NilErr, hasBody |-> FALSE]

\* the values a call sees at its entry
Snapshot(c) ==
    [connected |-> clients[c].connected,
     calls |-> publishEventsCallCount,
     acked |-> ackedEvents,
     notAcked |-> eventsNotAcked]

NoCall ==
    [active |-> FALSE, client |-> 1, data |-> <<>>, i |-> 0, trace |-> <<>>,
     pre |-> [connected |-> FALSE, calls |-> 0, acked |-> 0, notAcked |-> 0]]

Step(op, c, returned, unsent, err, pe) ==
    [op |-> op, client |-> c, returned |-> returned, unsent |-> unsent,
     err |-> err, value |-> FALSE, pe |-> pe]

\* ---------------------------------------------------------------- initial
Init ==
    /\ \E urlOK \in BOOLEAN, compression \in CompressionLevels :
          clients = [c \in ClientIds |->
                        IF c = 1
                        THEN NewClient(ConfiguredEndpoint, urlOK, TRUE,
                                       compression)
                        ELSE NoClient]
    /\ publishEventsCallCount = 0
    /\ ackedEvents = 0
    /\ eventsNotAcked = 0
    /\ call = NoCall
    /\ sentLog = <<>>
    /\ last = Step("NewClient", 1, TRUE, NilSlice, NilErr, NoPE)

\* ---------------------------------------------------------------- actions
\* Connection.Connect
Connect(c) ==
    /\ ~call.active
    /\ clients[c].exists
    /\ clients' = [clients EXCEPT ![c] = ConnConnect(clients[c])]
    /\ last' = Step("Connect", c, TRUE, NilSlice, NilErr, NoPE)
    /\ call' = NoCall
    /\ sentLog' = <<>>
    /\ UNCHANGED <<publishEventsCallCount, ackedEvents, eventsNotAcked>>

\* Connection.Close
Close(c) ==
    /\ ~call.active
    /\ clients[c].exists
    /\ clients' = [clients EXCEPT ![c] = ConnClose(clients[c])]
    /\ last' = Step("Close", c, TRUE, NilSlice, NilErr, NoPE)
    /\ call' = NoCall
    /\ sentLog' = <<>>
    /\ UNCHANGED <<publishEventsCallCount, ackedEvents, eventsNotAcked>>

\* Connection.IsConnected: the returned boolean is last.value
IsConnectedCall(c) ==
    /\ ~call.active
    /\ clients[c].exists
    /\ last' = [Step("IsConnected", c, TRUE, NilSlice, NilErr, NoPE)
                   EXCEPT !.value = IsConnected(clients[c])]
    /\ call' = NoCall
    /\ sentLog' = <<>>
    /\ UNCHANGED <<clients, publishEventsCallCount, ackedEvents,
                   eventsNotAcked>>

\* Client.Clone: a second client built from the first one
Clone(c, d) ==
    /\ ~call.active
    /\ clients[c].exists
    /\ ~clients[d].exists
    /\ clients' = [clients EXCEPT
                      ![d] = CloneOf(clients[c])]
    /\ last' = Step("Clone", c, TRUE, NilSlice, NilErr, NoPE)
    /\ call' = NoCall
    /\ sentLog' = <<>>
    /\ UNCHANGED <<publishEventsCallCount, ackedEvents, eventsNotAcked>>

\* Client.PublishEvent called on its own for one event; the event reaches the
\* code only through the encoder, whose verdict on it is part of env
PublishEventCall(c, env) ==
    /\ ~call.active
    /\ clients[c].exists
    /\ LET r == PublishEvent(clients[c], env)
       IN  /\ clients' = [clients EXCEPT ![c].connected = r.connected]
           /\ last' = Step("PublishEvent", c, TRUE, NilSlice, r.err,
                           PERecord(clients[c].connected, env, r))
    /\ call' = NoCall
    /\ sentLog' = <<>>
    /\ UNCHANGED <<publishEventsCallCount, ackedEvents, eventsNotAcked>>

\* Client.PublishEvents, lines 145-158: the call counter, then the empty
\* batch and the connected check
PublishEventsBegin(c, data) ==
    /\ ~call.active
    /\ clients[c].exists
    /\ publishEventsCallCount < MaxCalls
    /\ publishEventsCallCount' = publishEventsCallCount + 1
    /\ sentLog' = <<>>
    /\ LET r == PublishEventsEntry(clients[c], data)
       IN  /\ call' = [active |-> ~r.returned, client |-> c, data |-> data,
                       i |-> IF r.returned THEN 0 ELSE 1, trace |-> <<>>,
                       pre |-> Snapshot(c)]
           /\ last' = Step("PublishEvents", c, r.returned, r.unsent, r.err, NoPE)
    /\ UNCHANGED <<clients, ackedEvents, eventsNotAcked>>

\* Client.PublishEvents, lines 159-178: one iteration of the loop, and the
\* code after the loop when the iteration was the last one.  failedEvents is
\* never appended to: it stays the nil slice.
PublishEventsLoop(env) ==
    /\ call.active
    /\ LET c == call.client
           r == PublishEvent(clients[c], env)
           pe == PERecord(clients[c].connected, env, r)
           failedEvents == <<>>
           done == AfterLoop(call.data, failedEvents, r.err)
       IN  /\ clients' = [clients EXCEPT ![c].connected = r.connected]
           /\ sentLog' = LogRequest(sentLog, call.i, r)
           /\ IF LoopExit(r.err)
              THEN /\ call' = [call EXCEPT !.active = FALSE,
                                           !.trace = Append(@, pe)]
                   /\ last' = Step("PublishEvents", c, TRUE, NilSlice, r.err, pe)
                   /\ UNCHANGED <<ackedEvents, eventsNotAcked>>
              ELSE IF call.i < Len(call.data)
              THEN /\ call' = [call EXCEPT !.i = call.i + 1,
                                           !.trace = Append(@, pe)]
                   /\ last' = Step("PublishEvents", c, FALSE, NilSlice, NilErr, pe)
                   /\ UNCHANGED <<ackedEvents, eventsNotAcked>>
              ELSE /\ call' = [call EXCEPT !.active = FALSE,
                                           !.trace = Append(@, pe)]
                   /\ ackedEvents' = ackedEvents + done.acked
                   /\ eventsNotAcked' = eventsNotAcked + done.notAcked
                   /\ last' = Step("PublishEvents", c, TRUE, done.unsent,
                                   done.err, pe)
    /\ UNCHANGED publishEventsCallCount

Next ==
    \/ \E c \in ClientIds : Connect(c)
    \/ \E c \in ClientIds : Close(c)
    \/ \E c \in ClientIds : IsConnectedCall(c)
    \/ \E c \in ClientIds, d \in ClientIds : Clone(c, d)
    \/ \E c \in ClientIds, env \in Envs : PublishEventCall(c, env)
    \/ \E c \in ClientIds, data \in Batches : PublishEventsBegin(c, data)
    \/ \E env \in Envs : PublishEventsLoop(env)

Spec == Init /\ [][Next]_vars

TypeOK ==
    /\ publishEventsCallCount \in 0..MaxCalls
    /\ ackedEvents \in Nat
    /\ eventsNotAcked \in Nat
    /\ call.data \in Batches
    /\ \A c \in ClientIds : clients[c].connected \in BOOLEAN

\* ------------------------------------------------------------------ claims
\* the client the last step acted on, and its connected flag now (after it)
LastConn == clients[last.client].connected

\* the last step ran PublishEvent on a connected client and the round trip
\* completed with an HTTP status
Completed == last.pe.ran /\ last.pe.pre /\ last.pe.responded

\* the last step returned from a PublishEvents call
Returned == last.op = "PublishEvents" /\ last.returned

\* C1: a PublishEvent made while connected whose request completes with a
\* status >= 500 or = 429 returns a non-nil error and leaves connected false.
C1_RetryableStatus ==
    (Completed /\ (last.pe.status >= 500 \/ last.pe.status = 429))
        => (last.err # NilErr /\ last.pe.err = last.err /\ ~LastConn)

C1_Witness ==
    /\ Completed
    /\ last.pe.status = 429
    /\ last.err = StatusErr(429)
    /\ ~LastConn

\* C2: a PublishEvent made while connected whose request completes with a
\* status in 300..499 other than 429 returns nil: dropped, no retry signalled.
C2_TerminalStatus ==
    (Completed /\ last.pe.status >= 300 /\ last.pe.status < 500
               /\ last.pe.status # 429)
        => (last.pe.err = NilErr
            /\ (last.op = "PublishEvent" => last.err = NilErr))

C2_Witness ==
    /\ last.op = "PublishEvent"
    /\ Completed
    /\ last.pe.status = 404
    /\ last.err = NilErr

\* C3 (as claimed): a PublishEvent made while connected whose round trip fails
\* at the transport level leaves connected false and returns the transport
\* error to its caller.
C3_TransportErrorReturned ==
    (last.pe.ran /\ last.pe.pre /\ last.pe.transportFailed)
        => (~LastConn /\ last.pe.err = TransportErr)

\* sentLog lists batch positions in strictly increasing order
SentInOrder ==
    \A j, k \in 1..Len(sentLog) : j < k => sentLog[j] < sentLog[k]

RetryableOrConnectionFailure(pe) ==
    \/ pe.responded /\ (pe.status >= 500 \/ pe.status = 429)
    \/ pe.transportFailed
    \/ pe.readFailed

\* C5 (as claimed): for a batch published from connected = true, terminal
\* classifications never make PublishEvents return a non-nil error; it returns
\* one only when some event's attempt was retryable or failed at connection
\* level.
C5_OnlyRetryableEscapes ==
    (Returned /\ call.pre.connected /\ Len(call.data) > 0 /\ last.err # NilErr)
        => \E k \in 1..Len(call.trace) :
              RetryableOrConnectionFailure(call.trace[k])

\* C6: PublishEvents with a non-empty batch while connected = false returns
\* the whole input batch, unchanged and in order, with ErrNotConnected; it
\* sends no request and leaves connected false.
C6_NotConnectedBatch ==
    (Returned /\ Len(call.data) > 0 /\ ~call.pre.connected)
        => /\ last.unsent = Slice(call.data)
           /\ last.err = ErrNotConnected
           /\ sentLog = <<>>
           /\ call.trace = <<>>
           /\ ~LastConn

C6_Witness ==
    /\ Returned
    /\ ~call.pre.connected
    /\ call.data = <<"e2", "e1">>
    /\ last.unsent = Slice(<<"e2", "e1">>)
    /\ last.err = ErrNotConnected

\* C7: PublishEvent called while connected = false returns ErrNotConnected,
\* sends no request, does not invoke the encoder and leaves connected false.
C7_NotConnectedEvent ==
    (last.pe.ran /\ ~last.pe.pre)
        => /\ last.pe.err = ErrNotConnected
           /\ last.err = ErrNotConnected
           /\ ~last.pe.attempted
           /\ ~last.pe.marshalled
           /\ ~LastConn

C7_Witness ==
    /\ last.op = "PublishEvent"
    /\ last.pe.ran
    /\ ~last.pe.pre
    /\ last.err = ErrNotConnected

C9_EncodeFailure ==
    (last.pe.ran /\ last.pe.pre /\ last.pe.encodeFailed)
        => /\ ~last.pe.attempted
           /\ last.pe.err = NilErr
           /\ LastConn

C9_Witness ==
    /\ last.op = "PublishEvent"
    /\ last.pe.ran
    /\ last.pe.pre
    /\ last.pe.encodeFailed
    /\ last.err = NilErr
    /\ LastConn

\* C10 (as claimed): PublishEvents with an empty batch returns (nil, nil),
\* sends nothing, leaves connected unchanged and changes none of the three
\* counters, whatever the connected state.
C10_EmptyBatchNoEffect ==
    (Returned /\ Len(call.data) = 0)
        => /\ last.unsent = NilSlice
           /\ last.err = NilErr
           /\ sentLog = <<>>
           /\ LastConn = call.pre.connected
           /\ publishEventsCallCount = call.pre.calls
           /\ ackedEvents = call.pre.acked
           /\ eventsNotAcked = call.pre.notAcked

\* C10 (amended): PublishEvents with an empty batch returns (nil, nil), sends
\* nothing, leaves connected and the acked and not-acked counters unchanged,
\* whatever the connected state; the publish-call counter goes up by one.
C10_EmptyBatchCountsCall ==
    (Returned /\ Len(call.data) = 0)
        => /\ last.unsent = NilSlice
           /\ last.err = NilErr
           /\ sentLog = <<>>
           /\ call.trace = <<>>
           /\ LastConn = call.pre.connected
           /\ publishEventsCallCount = call.pre.calls + 1
           /\ ackedEvents = call.pre.acked
           /\ eventsNotAcked = call.pre.notAcked

C10_Witness ==
    /\ Returned
    /\ Len(call.data) = 0
    /\ ~call.pre.connected
    /\ last.err = NilErr
    /\ publishEventsCallCount = 2

\* every event of the batch got a request that completed with a status < 300
AllBelow300 ==
    /\ Len(call.trace) = Len(call.data)
    /\ \A k \in 1..Len(call.trace) :
          call.trace[k].responded /\ call.trace[k].status < 300

C12_NoAutoReconnect ==
    [][\A c \in ClientIds :
          (~clients[c].connected /\ clients'[c].connected)
             => (last'.op = "Connect" /\ last'.client = c)]_vars

C12_Witness ==
    /\ last.op = "Connect"
    /\ LastConn
    /\ publishEventsCallCount > 0

\* a publish attempt that ended with a transport error or a status >= 300
LostConnection(pe) ==
    /\ pe.ran
    /\ pe.pre
    /\ \/ pe.transportFailed
       \/ pe.responded /\ pe.status >= 300

\* C13: after a publish attempt that ends with a transport error or a status
\* >= 300 IsConnected() is false; and on a client whose flag is false every
\* step other than Connect leaves it false, a PublishEvent returns
\* ErrNotConnected without sending, and a non-empty PublishEvents returns
\* ErrNotConnected without sending.
C13_LossSeenByNextCall ==
    [][/\ LostConnection(last'.pe) => ~IsConnected(clients'[last'.client])
       /\ \A c \in ClientIds :
             (~clients[c].connected /\ last'.client = c)
                => /\ last'.op # "Connect" => ~IsConnected(clients'[c])
                   /\ last'.pe.ran
                         => /\ last'.pe.err = ErrNotConnected
                            /\ ~last'.pe.attempted
                            /\ last'.returned
                            /\ last'.err = ErrNotConnected
                   /\ (last'.op = "PublishEvents" /\ ~last'.pe.ran
                          /\ Len(call'.data) > 0)
                         => /\ last'.returned
                            /\ last'.err = ErrNotConnected
                            /\ sentLog' = <<>>]_vars

C13_Witness ==
    /\ Returned
    /\ Len(call.trace) = 2
    /\ call.trace[1].transportFailed
    /\ call.trace[2].err = ErrNotConnected
    /\ ~call.trace[2].attempted
    /\ last.err = ErrNotConnected
    /\ sentLog = <<1>>

\* C14: Connect sets connected = true, sends nothing and returns nil; Close
\* sets connected = false and returns nil; closing twice leaves what closing
\* once leaves; IsConnected returns the flag's current value.
C14_ConnectCloseIsConnected ==
    /\ last.op = "Connect"
          => /\ IsConnected(clients[last.client])
             /\ last.err = NilErr
             /\ ~last.pe.ran
             /\ sentLog = <<>>
    /\ last.op = "Close"
          => /\ ~IsConnected(clients[last.client])
             /\ last.err = NilErr
             /\ ~last.pe.ran
             /\ sentLog = <<>>
    /\ \A c \in ClientIds :
          clients[c].exists
             => ConnClose(ConnClose(clients[c])) = ConnClose(clients[c])
    /\ last.op = "IsConnected" => last.value = clients[last.client].connected

C14_Witness ==
    /\ last.op = "Close"
    /\ ~IsConnected(clients[last.client])
    /\ last.err = NilErr
    /\ publishEventsCallCount > 0

\* C15: Clone builds a second client with the original's URL, proxy, TLS
\* context, credentials and timeout, without static query parameters and not
\* connected, and leaves the original as it was; every other step changes
\* nothing of the client it does not act on.
C15_CloneIndependent ==
    [][/\ last'.op = "Clone"
             => \E d \in ClientIds :
                   /\ ~clients[d].exists
                   /\ clients'[d].exists
                   /\ clients'[d].endpoint = clients[last'.client].endpoint
                   /\ clients'[d].urlOK = clients[last'.client].urlOK
                   /\ ~clients'[d].params
                   /\ ~clients'[d].connected
                   /\ \A e \in ClientIds \ {d} : clients'[e] = clients[e]
       /\ last'.op # "Clone"
             => \A d \in ClientIds \ {last'.client} :
                   clients'[d] = clients[d]]_vars

C15_Witness ==
    /\ clients[1].params
    /\ clients[2].exists
    /\ clients[2].endpoint = ConfiguredEndpoint
    /\ ~clients[2].params
    /\ last.client = 2
    /\ LostConnection(last.pe)
    /\ ~clients[2].connected
    /\ clients[1].connected

\* C16: every completed round trip with a status >= 300 sets connected = false
\* and makes request return (status, nil, a non-nil error), also for the
\* statuses 300..499 other than 429, for which PublishEvent returns nil.
C16_Status300Disconnects ==
    (Completed /\ last.pe.status >= 300)
        => /\ ~LastConn
           /\ last.pe.reqErr = StatusErr(last.pe.status)
           /\ last.pe.reqErr # NilErr
           /\ ~last.pe.hasBody
           /\ (last.pe.status < 500 /\ last.pe.status # 429)
                 => last.pe.err = NilErr

C16_Witness ==
    /\ Completed
    /\ last.pe.status = 300
    /\ last.pe.reqErr = StatusErr(300)
    /\ last.pe.err = NilErr
    /\ ~LastConn

\* the events of the call whose request completed with a status < 300
Delivered ==
    Cardinality({k \in 1..Len(call.trace) :
                    call.trace[k].responded /\ call.trace[k].status < 300})

\* C17 (as claimed): every PublishEvents call adds one to the publish-call
\* counter, and a call on a non-empty batch adds the number of delivered
\* events to the acked counter and the number of undelivered events of the
\* batch to the not-acked counter.
C17_CountersMatchDelivery ==
    Returned
        => /\ publishEventsCallCount = call.pre.calls + 1
           /\ Len(call.data) > 0
                 => /\ ackedEvents = call.pre.acked + Delivered
                    /\ eventsNotAcked =
                          call.pre.notAcked + (Len(call.data) - Delivered)

C19_NoInternalRetry ==
    last.op = "PublishEvents"
        => /\ SentInOrder
           /\ Len(sentLog) <= Len(call.data)
           /\ \A k \in 1..Len(sentLog) : sentLog[k] \in 1..Len(call.data)
           /\ \E m \in 0..Len(call.trace) :
                 {sentLog[k] : k \in 1..Len(sentLog)}
                    = {j \in 1..m : ~call.trace[j].encodeFailed}

C19_Witness ==
    /\ Returned
    /\ Len(call.data) = 2
    /\ Len(call.trace) = 2
    /\ call.trace[1].encodeFailed
    /\ call.trace[2].status = 500
    /\ sentLog = <<2>>

\* C20 (as claimed): the client Clone returns uses the same body-encoder
\* variant as the client it was cloned from: plain JSON for compression level
\* 0, gzip at level c for a level c in 1..9.
C20_CloneSameEncoder ==
    clients[2].exists => clients[2].encoder = clients[1].encoder
====
